---- MODULE Spec2Model ----
(***************************************************************************)
(* Model of OpenAPIGraphGenerator (src/openapi-viz.py): the translation of *)
(* components.schemas into graph.node / graph.edge calls.                  *)
(*                                                                         *)
(* The parsed document is a tree of Python values.  A value is a record    *)
(* tagged by its Python type in field k:                                   *)
(*   none, bool, int, str, list, dict.                                     *)
(* A str is kept as the list of its '/'-separated segments (what           *)
(* str.split('/') returns); a dict is kept as its ordered list of          *)
(* <<key, value>> entries (Python dicts iterate in insertion order).       *)
(* An exception is the err field of the traversal state: once it is set,   *)
(* every enclosing call returns at once, as a propagating exception does.  *)
(***************************************************************************)
EXTENDS Integers, Sequences, FiniteSets, TLC

VARIABLES spec, processed_refs, calls, trace, nested_edges, last, runs, ncalls

vars == <<spec, processed_refs, calls, trace, nested_edges, last, runs, ncalls>>

-----------------------------------------------------------------------------
(* Bounds of the model. *)

MaxSchemas == 2
MaxRuns == 2
MaxCalls == 1
MaxEnum == 7
MaxDepth == 4

-----------------------------------------------------------------------------
(* Python values and the operations the code applies to them. *)

PyNone == [k |-> "none"]

PyBool(b) == [k |-> "bool", b |-> b]

PyInt(n) == [k |-> "int", n |-> n]

PyStr(segs) == [k |-> "str", segs |-> segs]

PyList(xs) == [k |-> "list", xs |-> xs]

PyDict(es) == [k |-> "dict", es |-> es]

S(s) == PyStr(<<s>>)

RECURSIVE JoinStrings(_, _)
JoinStrings(ss, sep) ==
    IF ss = <<>> THEN ""
    ELSE IF Len(ss) = 1 THEN ss[1]
    ELSE ss[1] \o sep \o JoinStrings(Tail(ss), sep)

Text(v) == JoinStrings(v.segs, "/")

Keys(d) == [i \in 1..Len(d.es) |-> d.es[i][1]]

HasKey(d, key) == \E i \in 1..Len(d.es) : d.es[i][1] = key

\* The value a dict holds for a key.  A key written twice keeps its last
\* value; the documents of this model never repeat a key.
Lookup(d, key) == d.es[CHOOSE i \in 1..Len(d.es) : d.es[i][1] = key][2]

\* `key in v` raises TypeError for a value that is not a container.
InErr(v) == v.k \in {"none", "bool", "int"}

\* `key in v`: key test on a dict, element test on a list, substring test on
\* a str (the str values of this model hold a key name only as a whole
\* segment).
In(key, v) ==
    CASE v.k = "dict" -> HasKey(v, key)
      [] v.k = "list" -> \E i \in 1..Len(v.xs) : v.xs[i] = S(key)
      [] v.k = "str" -> \E i \in 1..Len(v.segs) : v.segs[i] = key

\* `v[key]` with a str key: TypeError on a str or a list, KeyError on a dict
\* without the key.
SubErr(v, key) ==
    IF v.k = "dict" THEN (IF HasKey(v, key) THEN "none" ELSE "KeyError")
    ELSE "TypeError"

Sub(v, key) == Lookup(v, key)

\* `v.get(...)` exists on dicts only.
GetErr(v) == v.k # "dict"

Get(v, key, default) == IF HasKey(v, key) THEN Lookup(v, key) ELSE default

\* `v.split('/')[-1]`: split exists on str only.
SplitErr(v) == v.k # "str"

SplitLast(v) == v.segs[Len(v.segs)]

\* `for item in v` / `enumerate(v)`: a list yields its elements, a dict its
\* keys.
IterErr(v) == v.k \in {"none", "bool", "int"}

Iter(v) ==
    CASE v.k = "list" -> v.xs
      [] v.k = "dict" -> [i \in 1..Len(v.es) |-> S(v.es[i][1])]

\* Truth value of `not v`.
Truthy(v) ==
    CASE v.k = "none" -> FALSE
      [] v.k = "bool" -> v.b
      [] v.k = "int" -> v.n # 0
      [] v.k = "str" -> v.segs # <<"">>
      [] v.k = "list" -> v.xs # <<>>
      [] v.k = "dict" -> v.es # <<>>

RECURSIVE Repr(_)
RECURSIVE ReprAll(_)
\* repr(v), used by str() of a list.
Repr(v) ==
    CASE v.k = "none" -> "None"
      [] v.k = "bool" -> (IF v.b THEN "True" ELSE "False")
      [] v.k = "int" -> ToString(v.n)
      [] v.k = "str" -> "'" \o Text(v) \o "'"
      [] v.k = "list" -> "[" \o JoinStrings(ReprAll(v.xs), ", ") \o "]"
      [] v.k = "dict" ->
           "{" \o JoinStrings([i \in 1..Len(v.es) |->
                    "'" \o v.es[i][1] \o "': " \o Repr(v.es[i][2])], ", ") \o "}"

ReprAll(xs) == [i \in 1..Len(xs) |-> Repr(xs[i])]

\* str(v) and the interpolation of v in an f-string.
Fmt(v) == IF v.k = "str" THEN Text(v) ELSE Repr(v)

\* ', '.join(types) raises TypeError when an element is not a str.
JoinErr(types) == \E i \in 1..Len(types) : types[i].k # "str"

JoinTypes(types) == JoinStrings([i \in 1..Len(types) |-> Text(types[i])], ", ")

\* Take the first n elements: xs[:n].
Slice(xs, n) == SubSeq(xs, 1, IF Len(xs) < n THEN Len(xs) ELSE n)

-----------------------------------------------------------------------------
(* _get_property_type_label: a pure function, its result is either a value  *)
(* or an exception.                                                         *)

Ok(v) == [err |-> "none", val |-> v]

Err(e) == [err |-> e, val |-> PyNone]

\* node['$ref'].split('/')[-1]
RefType(node) ==
    IF SubErr(node, "$ref") # "none" THEN Err(SubErr(node, "$ref"))
    ELSE IF SplitErr(Sub(node, "$ref")) THEN Err("AttributeError")
    ELSE Ok(S(SplitLast(Sub(node, "$ref"))))

\* The loop that collects the summaries of the alternatives of an anyOf
\* (lines 142-148, and again lines 159-165).
RECURSIVE Summaries(_, _)
Summaries(items, types) ==
    IF items = <<>> THEN [err |-> "none", types |-> types]
    ELSE LET item == Head(items) IN
         IF InErr(item) THEN [err |-> "TypeError", types |-> types]
         ELSE IF In("$ref", item) THEN
              IF RefType(item).err # "none"
              THEN [err |-> RefType(item).err, types |-> types]
              ELSE Summaries(Tail(items), Append(types, RefType(item).val))
         ELSE IF In("type", item) THEN
              IF SubErr(item, "type") # "none"
              THEN [err |-> SubErr(item, "type"), types |-> types]
              ELSE Summaries(Tail(items), Append(types, Sub(item, "type")))
         ELSE Summaries(Tail(items), Append(types, S("unknown")))

\* f"<prefix>anyOf: {', '.join(types)}"
JoinSummaries(prefix, r) ==
    IF r.err # "none" THEN Err(r.err)
    ELSE IF JoinErr(r.types) THEN Err("TypeError")
    ELSE Ok(S(prefix \o "anyOf: " \o JoinTypes(r.types)))

AnyOfLabel(prefix, v) ==
    IF IterErr(v) THEN Err("TypeError")
    ELSE JoinSummaries(prefix, Summaries(Iter(v), <<>>))

\* A variant that never looks at the items.
ArrayLabelBare(items) == Ok(S("array"))

\* The label of an array with items (lines 154-169).
ArrayLabel(items) ==
    IF InErr(items) THEN Err("TypeError")
    ELSE IF In("$ref", items) THEN
         IF RefType(items).err # "none" THEN Err(RefType(items).err)
         ELSE Ok(S("array of " \o Text(RefType(items).val)))
    ELSE IF In("anyOf", items) THEN
         IF SubErr(items, "anyOf") # "none" THEN Err(SubErr(items, "anyOf"))
         ELSE AnyOfLabel("array of ", Sub(items, "anyOf"))
    ELSE IF In("type", items) THEN
         IF SubErr(items, "type") # "none" THEN Err(SubErr(items, "type"))
         ELSE Ok(S("array of " \o Fmt(Sub(items, "type"))))
    ELSE Ok(S("array"))

_get_property_type_label(prop_details) ==
    IF InErr(prop_details) THEN Err("TypeError")
    ELSE IF In("$ref", prop_details) THEN
         IF RefType(prop_details).err # "none" THEN Err(RefType(prop_details).err)
         ELSE Ok(S("reference to " \o Text(RefType(prop_details).val)))
    ELSE IF In("anyOf", prop_details) THEN
         IF SubErr(prop_details, "anyOf") # "none"
         THEN Err(SubErr(prop_details, "anyOf"))
         ELSE AnyOfLabel("", Sub(prop_details, "anyOf"))
    ELSE IF In("type", prop_details) THEN
         IF SubErr(prop_details, "type") # "none"
         THEN Err(SubErr(prop_details, "type"))
         ELSE IF Sub(prop_details, "type") = S("array") THEN
              IF In("items", prop_details)
              THEN ArrayLabel(Sub(prop_details, "items"))
              ELSE Ok(S("array"))
         ELSE Ok(Sub(prop_details, "type"))
    ELSE Ok(S("unknown"))

-----------------------------------------------------------------------------
(* The graph sink.  Every graph.node / graph.edge / subgraph call is       *)
(* appended to a log; g names the graph object that received the call.     *)
(* The traversal state st holds the visited set, the log and the pending   *)
(* exception; st.trace is the list of the entries into _process_type and    *)
(* st.depth the number of its calls on the stack; st.nested holds the       *)
(* positions in the log of the edges drawn to the identifier of a nested    *)
(* call.                                                                    *)

EnumLimit == 5

NodeCall(g, id, label, tooltip) ==
    [op |-> "node", g |-> g, id |-> id, label |-> label, tooltip |-> tooltip]

\* graph.edge(tail_name, head_name, label=...): tail_name is the node
\* identifier, followed by ':' and the port when the edge starts at a table
\* row.
EdgeCall(g, tail, port, head, label) ==
    [op |-> "edge", g |-> g, tail |-> tail, port |-> port, head |-> head,
     label |-> label]

Node(st, g, id, label, tooltip) ==
    [st EXCEPT !.calls = Append(@, NodeCall(g, id, label, tooltip))]

Edge(st, g, tail, port, head, label) ==
    [st EXCEPT !.calls = Append(@, EdgeCall(g, tail, port, head, label))]

Raise(st, e) == [st EXCEPT !.err = e]

\* The last call of the log is an edge to the identifier of a nested call.
MarkNested(st) == [st EXCEPT !.nested = @ \cup {Len(st.calls)}]

\* graph.edge(...) in the statement after a nested _process_type call: it is
\* not reached when the nested call raised.
EdgeIfOk(st, g, tail, port, head, label) ==
    IF st.err # "none" THEN st
    ELSE MarkNested(Edge(st, g, tail, port, head, label))

\* ref_type = node['$ref'].split('/')[-1]; ref_id = f"schema_{ref_type}";
\* graph.edge(tail, ref_id, label=label)
RefEdge(st, g, tail, port, node, label) ==
    IF RefType(node).err # "none" THEN Raise(st, RefType(node).err)
    ELSE Edge(st, g, tail, port, "schema_" \o Text(RefType(node).val), label)

\* f"<{schema_name}<BR/><FONT POINT-SIZE='10'>type: ...</FONT>>"
TypeLabel(schema_name, type_text) ==
    "<" \o schema_name \o "<BR/><FONT POINT-SIZE='10'>type: " \o type_text
        \o "</FONT>>"

\* {'type': 'object', 'properties': ...}: the schema handed to a nested call.
InlineObject(properties) ==
    PyDict(<< <<"type", S("object")>>, <<"properties", properties>> >>)

RECURSIVE _process_type(_, _, _, _, _)

-----------------------------------------------------------------------------
(* _properties_as_html_table *)

\* One alternative of an anyOf property (word "anyOf", lines 85-95) or of the
\* anyOf items of an array property (word "array anyOf", lines 104-114).
PropAnyOfStep(prop_name, item, i, parent_id, port_name, graph, word, idword, st) ==
    LET edge_label == prop_name \o " (" \o word \o "[" \o ToString(i) \o "])"
        nested_id == parent_id \o "_" \o prop_name \o "_" \o idword \o "_"
                         \o ToString(i)
    IN
    IF InErr(item) THEN Raise(st, "TypeError")
    ELSE IF In("$ref", item)
    THEN RefEdge(st, graph, parent_id, port_name, item, edge_label)
    ELSE IF In("type", item) THEN
         IF SubErr(item, "type") # "none" THEN Raise(st, SubErr(item, "type"))
         ELSE IF Sub(item, "type") = S("object") /\ In("properties", item)
         THEN EdgeIfOk(_process_type(
                           prop_name \o " " \o word \o " " \o ToString(i),
                           InlineObject(Sub(item, "properties")),
                           nested_id, graph, st),
                       graph, parent_id, port_name, nested_id, edge_label)
         ELSE st
    ELSE st

\* for i, item in enumerate(...)
RECURSIVE PropAnyOfLoop(_, _, _, _, _, _, _, _, _)
PropAnyOfLoop(prop_name, items, i, parent_id, port_name, graph, word, idword, st) ==
    IF st.err # "none" \/ i >= Len(items) THEN st
    ELSE PropAnyOfLoop(prop_name, items, i + 1, parent_id, port_name, graph,
             word, idword,
             PropAnyOfStep(prop_name, items[i + 1], i, parent_id, port_name,
                           graph, word, idword, st))

\* Whether the type cell of the row gets a PORT attribute (line 72).
PortCond(prop_details) ==
    IF InErr(prop_details) THEN Err("TypeError")
    ELSE IF In("$ref", prop_details) \/ In("anyOf", prop_details)
    THEN Ok(PyBool(TRUE))
    ELSE IF GetErr(prop_details) THEN Err("AttributeError")
    ELSE Ok(PyBool(
            \/ /\ Get(prop_details, "type", PyNone) = S("array")
               /\ In("items", prop_details)
            \/ /\ Get(prop_details, "type", PyNone) = S("object")
               /\ In("properties", prop_details)))

\* A variant that draws no edge for an array property.
ArrayPropEdgesNone(prop_name, items, parent_id, port_name, graph, st) == st

\* The edges of an array property with items (lines 97-123).
ArrayPropEdges(prop_name, items, parent_id, port_name, graph, st) ==
    IF InErr(items) THEN Raise(st, "TypeError")
    ELSE IF In("$ref", items)
    THEN RefEdge(st, graph, parent_id, port_name, items, prop_name \o " (array)")
    ELSE IF In("anyOf", items) THEN
         IF SubErr(items, "anyOf") # "none" THEN Raise(st, SubErr(items, "anyOf"))
         ELSE IF IterErr(Sub(items, "anyOf")) THEN Raise(st, "TypeError")
         ELSE PropAnyOfLoop(prop_name, Iter(Sub(items, "anyOf")), 0, parent_id,
                  port_name, graph, "array anyOf", "array_anyOf", st)
    ELSE IF In("type", items) THEN
         IF SubErr(items, "type") # "none" THEN Raise(st, SubErr(items, "type"))
         ELSE IF Sub(items, "type") = S("object") /\ In("properties", items)
         THEN EdgeIfOk(_process_type(prop_name \o " items",
                           InlineObject(Sub(items, "properties")),
                           parent_id \o "_" \o prop_name \o "_items", graph, st),
                       graph, parent_id, port_name,
                       parent_id \o "_" \o prop_name \o "_items",
                       prop_name \o " (array)")
         ELSE st
    ELSE st

\* The edges of one property (lines 77-130).
PropEdges(prop_name, prop_details, parent_id, port_name, graph, st) ==
    IF InErr(prop_details) THEN Raise(st, "TypeError")
    ELSE IF In("$ref", prop_details)
    THEN RefEdge(st, graph, parent_id, port_name, prop_details, prop_name)
    ELSE IF In("anyOf", prop_details) THEN
         IF SubErr(prop_details, "anyOf") # "none"
         THEN Raise(st, SubErr(prop_details, "anyOf"))
         ELSE IF IterErr(Sub(prop_details, "anyOf")) THEN Raise(st, "TypeError")
         ELSE PropAnyOfLoop(prop_name, Iter(Sub(prop_details, "anyOf")), 0,
                  parent_id, port_name, graph, "anyOf", "anyOf", st)
    ELSE IF GetErr(prop_details) THEN Raise(st, "AttributeError")
    ELSE IF Get(prop_details, "type", PyNone) = S("array") /\ In("items", prop_details)
    THEN ArrayPropEdges(prop_name, Sub(prop_details, "items"), parent_id,
                        port_name, graph, st)
    ELSE IF Get(prop_details, "type", PyNone) = S("object")
            /\ In("properties", prop_details)
    THEN EdgeIfOk(_process_type(prop_name,
                      InlineObject(Sub(prop_details, "properties")),
                      parent_id \o "_" \o prop_name, graph, st),
                  graph, parent_id, port_name, parent_id \o "_" \o prop_name,
                  prop_name)
    ELSE st

\* The table row of one property (lines 72-75).
Row(prop_name, port_name, has_port, prop_type) ==
    IF has_port
    THEN "<TR><TD>" \o prop_name \o "</TD><TD PORT=\"" \o port_name \o "\">"
             \o Fmt(prop_type) \o "</TD></TR>"
    ELSE "<TR><TD>" \o prop_name \o "</TD><TD>" \o Fmt(prop_type) \o "</TD></TR>"

\* One pass of the loop over properties.items() (lines 67-130), given the
\* property's type label and its PORT condition; acc holds the traversal
\* state and the table text built so far.
PropStep(prop_name, prop_details, parent_id, graph, acc, prop_type, has_port) ==
    IF prop_type.err # "none" THEN [acc EXCEPT !.st = Raise(acc.st, prop_type.err)]
    ELSE IF has_port.err # "none"
    THEN [acc EXCEPT !.st = Raise(acc.st, has_port.err)]
    ELSE [st |-> PropEdges(prop_name, prop_details, parent_id,
                           "port_" \o prop_name, graph, acc.st),
          table |-> acc.table \o Row(prop_name, "port_" \o prop_name,
                                     has_port.val.b, prop_type.val)]

RECURSIVE PropLoop(_, _, _, _, _)
PropLoop(entries, j, parent_id, graph, acc) ==
    IF acc.st.err # "none" \/ j > Len(entries) THEN acc
    ELSE PropLoop(entries, j + 1, parent_id, graph,
             PropStep(entries[j][1], entries[j][2], parent_id, graph, acc,
                      _get_property_type_label(entries[j][2]),
                      PortCond(entries[j][2])))

\* table += "</TABLE>"; return table
CloseTable(r) == [st |-> r.st, table |-> r.table \o "</TABLE>"]

_properties_as_html_table(schema_name, properties, parent_id, graph, st) ==
    IF ~Truthy(properties)
    THEN [st |-> st, table |-> "<TABLE><TR><TD>No properties</TD></TR></TABLE>"]
    ELSE IF GetErr(properties)
    THEN [st |-> Raise(st, "AttributeError"), table |-> ""]
    ELSE CloseTable(PropLoop(properties.es, 1, parent_id, graph,
             [st |-> st,
              table |-> "<TABLE BORDER='0' CELLBORDER='1' CELLSPACING='0'>"
                  \o "<TR><TD COLSPAN='2'><B>" \o schema_name \o "</B></TD></TR>"
                  \o "<TR><TD><B>Property</B></TD><TD><B>Type</B></TD></TR>"]))

-----------------------------------------------------------------------------
(* _process_type *)

\* One alternative of a schema's anyOf (word "anyOf", lines 195-210) or of
\* its array items' anyOf (word "items anyOf", lines 250-265); acc holds the
\* traversal state and the summaries collected so far.
AnyOfStep(schema_name, item, i, schema_id, graph, word, idword, acc) ==
    LET edge_label == word \o "[" \o ToString(i) \o "]"
        anyof_id == schema_id \o "_" \o idword \o "_" \o ToString(i)
    IN
    IF InErr(item) THEN [acc EXCEPT !.st = Raise(acc.st, "TypeError")]
    ELSE IF In("$ref", item) THEN
         IF RefType(item).err # "none"
         THEN [acc EXCEPT !.st = Raise(acc.st, RefType(item).err)]
         ELSE [st |-> Edge(acc.st, graph, schema_id, "",
                           "schema_" \o Text(RefType(item).val), edge_label),
               types |-> Append(acc.types, RefType(item).val)]
    ELSE IF In("type", item) THEN
         IF SubErr(item, "type") # "none"
         THEN [acc EXCEPT !.st = Raise(acc.st, SubErr(item, "type"))]
         ELSE IF Sub(item, "type") = S("object") /\ In("properties", item)
         THEN [st |-> EdgeIfOk(_process_type(
                                   schema_name \o " " \o word \o " " \o ToString(i),
                                   InlineObject(Sub(item, "properties")),
                                   anyof_id, graph, acc.st),
                               graph, schema_id, "", anyof_id, edge_label),
               types |-> Append(acc.types, Sub(item, "type"))]
         ELSE [st |-> acc.st, types |-> Append(acc.types, Sub(item, "type"))]
    ELSE [st |-> acc.st, types |-> Append(acc.types, S("unknown"))]

\* A variant whose loop stops one alternative early.
RECURSIVE AnyOfLoopShort(_, _, _, _, _, _, _, _)
AnyOfLoopShort(schema_name, items, i, schema_id, graph, word, idword, acc) ==
    IF acc.st.err # "none" \/ i >= Len(items) - 1 THEN acc
    ELSE AnyOfLoopShort(schema_name, items, i + 1, schema_id, graph, word, idword,
             AnyOfStep(schema_name, items[i + 1], i, schema_id, graph, word,
                       idword, acc))

\* for i, item in enumerate(...)
RECURSIVE AnyOfLoop(_, _, _, _, _, _, _, _)
AnyOfLoop(schema_name, items, i, schema_id, graph, word, idword, acc) ==
    IF acc.st.err # "none" \/ i >= Len(items) THEN acc
    ELSE AnyOfLoop(schema_name, items, i + 1, schema_id, graph, word, idword,
             AnyOfStep(schema_name, items[i + 1], i, schema_id, graph, word,
                       idword, acc))

\* The node emitted after the loop (lines 212-213 and 267-268).
AnyOfNode(schema_name, schema_id, graph, prefix, r) ==
    IF r.st.err # "none" THEN r.st
    ELSE IF JoinErr(r.types) THEN Raise(r.st, "TypeError")
    ELSE Node(r.st, graph, schema_id,
              TypeLabel(schema_name, prefix \o "anyOf: " \o JoinTypes(r.types)), "")

\* Lines 182-189.
ProcessReference(schema_name, schema, schema_id, graph, st) ==
    IF RefType(schema).err # "none" THEN Raise(st, RefType(schema).err)
    ELSE Edge(Node(st, graph, schema_id, TypeLabel(schema_name, "reference"), ""),
              graph, schema_id, "", "schema_" \o Text(RefType(schema).val),
              "references")

\* Lines 191-214.
ProcessAnyOf(schema_name, schema, schema_id, graph, st) ==
    IF SubErr(schema, "anyOf") # "none" THEN Raise(st, SubErr(schema, "anyOf"))
    ELSE IF IterErr(Sub(schema, "anyOf")) THEN Raise(st, "TypeError")
    ELSE AnyOfNode(schema_name, schema_id, graph, "",
             AnyOfLoop(schema_name, Iter(Sub(schema, "anyOf")), 0, schema_id,
                       graph, "anyOf", "anyOf", [st |-> st, types |-> <<>>]))

\* A variant that draws the edge to the nested identifier without processing
\* the nested schema.
AdditionalPropsEdgeOnly(add_props, schema_id, graph, st) ==
    IF In("$ref", add_props)
    THEN RefEdge(st, graph, schema_id, "", add_props, "additionalProperties")
    ELSE IF Get(add_props, "type", PyNone) = S("object") /\ In("properties", add_props)
    THEN Edge(st, graph, schema_id, "", schema_id \o "_additionalProps",
              "additionalProperties")
    ELSE st

\* A variant that follows a $ref of additionalProperties into the schema it
\* names.
AdditionalPropsFollowRef(add_props, schema_id, graph, st) ==
    IF In("$ref", add_props)
    THEN EdgeIfOk(_process_type(SplitLast(Sub(add_props, "$ref")),
                      Get(Get(Get(spec, "components", PyDict(<<>>)), "schemas",
                              PyDict(<<>>)),
                          SplitLast(Sub(add_props, "$ref")), PyDict(<<>>)),
                      "schema_" \o SplitLast(Sub(add_props, "$ref")), graph, st),
                  graph, schema_id, "",
                  "schema_" \o SplitLast(Sub(add_props, "$ref")),
                  "additionalProperties")
    ELSE IF Get(add_props, "type", PyNone) = S("object") /\ In("properties", add_props)
    THEN EdgeIfOk(_process_type("additionalProperties", add_props,
                                schema_id \o "_additionalProps", graph, st),
                  graph, schema_id, "", schema_id \o "_additionalProps",
                  "additionalProperties")
    ELSE st

\* Lines 227-235, given the additionalProperties mapping.
AdditionalPropsEdge(add_props, schema_id, graph, st) ==
    IF In("$ref", add_props)
    THEN RefEdge(st, graph, schema_id, "", add_props, "additionalProperties")
    ELSE IF Get(add_props, "type", PyNone) = S("object") /\ In("properties", add_props)
    THEN EdgeIfOk(_process_type("additionalProperties", add_props,
                                schema_id \o "_additionalProps", graph, st),
                  graph, schema_id, "", schema_id \o "_additionalProps",
                  "additionalProperties")
    ELSE st

\* Lines 225-226.
AdditionalProperties(schema, schema_id, graph, st) ==
    IF In("additionalProperties", schema)
       /\ Sub(schema, "additionalProperties").k = "dict"
    THEN AdditionalPropsEdge(Sub(schema, "additionalProperties"), schema_id,
                             graph, st)
    ELSE st

\* Lines 222-235, given the table _properties_as_html_table returned.
ObjectNode(schema, schema_id, graph, r) ==
    IF r.st.err # "none" THEN r.st
    ELSE AdditionalProperties(schema, schema_id, graph,
             Node(r.st, graph, schema_id, "<" \o r.table \o ">", ""))

\* Lines 219-235.
ProcessObject(schema_name, schema, schema_id, graph, st) ==
    ObjectNode(schema, schema_id, graph,
        _properties_as_html_table(schema_name,
            Get(schema, "properties", PyDict(<<>>)), schema_id, graph, st))

\* A variant that never descends into the items.
ArrayOfTypeFlat(schema_name, items, item_type, schema_id, graph, st) == st

\* Lines 274-280, after the node of an array with typed items.
ArrayOfType(schema_name, items, item_type, schema_id, graph, st) ==
    IF item_type = S("object") /\ In("properties", items)
    THEN EdgeIfOk(_process_type(schema_name \o " items",
                      InlineObject(Sub(items, "properties")),
                      schema_id \o "_items", graph, st),
                  graph, schema_id, "", schema_id \o "_items", "items")
    ELSE st

\* Lines 239-283.
ArrayItems(schema_name, items, schema_id, graph, st) ==
    IF InErr(items) THEN Raise(st, "TypeError")
    ELSE IF In("$ref", items) THEN
         IF RefType(items).err # "none" THEN Raise(st, RefType(items).err)
         ELSE Edge(Node(st, graph, schema_id,
                        TypeLabel(schema_name,
                                  "array of " \o Text(RefType(items).val)), ""),
                   graph, schema_id, "", "schema_" \o Text(RefType(items).val),
                   "items")
    ELSE IF In("anyOf", items) THEN
         IF SubErr(items, "anyOf") # "none" THEN Raise(st, SubErr(items, "anyOf"))
         ELSE IF IterErr(Sub(items, "anyOf")) THEN Raise(st, "TypeError")
         ELSE AnyOfNode(schema_name, schema_id, graph, "array of ",
                  AnyOfLoop(schema_name, Iter(Sub(items, "anyOf")), 0, schema_id,
                            graph, "items anyOf", "items_anyOf",
                            [st |-> st, types |-> <<>>]))
    ELSE IF In("type", items) THEN
         IF SubErr(items, "type") # "none" THEN Raise(st, SubErr(items, "type"))
         ELSE ArrayOfType(schema_name, items, Sub(items, "type"), schema_id, graph,
                  Node(st, graph, schema_id,
                       TypeLabel(schema_name,
                                 "array of " \o Fmt(Sub(items, "type"))), ""))
    ELSE Node(st, graph, schema_id, TypeLabel(schema_name, "array"), "")

\* Lines 237-286.
ProcessArray(schema_name, schema, schema_id, graph, st) ==
    IF In("items", schema)
    THEN ArrayItems(schema_name, Sub(schema, "items"), schema_id, graph, st)
    ELSE Node(st, graph, schema_id, TypeLabel(schema_name, "array"), "")

\* len(enum_values) raises TypeError on a value without a length.
LenErr(v) == v.k \in {"none", "bool", "int"}

PyLen(v) ==
    CASE v.k = "list" -> Len(v.xs)

\* The text after "enum: " (lines 296-298).
EnumStr(enum_values) ==
    LET shown == Slice(enum_values.xs, EnumLimit)
        enum_str == JoinStrings([i \in 1..Len(shown) |-> Fmt(shown[i])], ", ")
    IN IF PyLen(enum_values) > EnumLimit THEN enum_str \o "..." ELSE enum_str

\* Whether the enum values are written on the node at all (line 295).
EnumShown(enum_values) == PyLen(enum_values) <= EnumLimit

\* Lines 292-300, after the node of the simple type.
EnumNode(schema_name, schema, schema_type, schema_id, graph, st) ==
    IF In("enum", schema) THEN
         IF LenErr(Sub(schema, "enum")) THEN Raise(st, "TypeError")
         ELSE IF EnumShown(Sub(schema, "enum"))
         THEN Node(st, graph, schema_id,
                   TypeLabel(schema_name,
                       Fmt(schema_type) \o "<BR/>enum: "
                           \o EnumStr(Sub(schema, "enum"))),
                   Fmt(Sub(schema, "enum")))
         ELSE st
    ELSE st

\* Lines 287-300.
ProcessSimple(schema_name, schema, schema_type, schema_id, graph, st) ==
    EnumNode(schema_name, schema, schema_type, schema_id, graph,
        Node(st, graph, schema_id, TypeLabel(schema_name, Fmt(schema_type)), ""))

\* A variant without the early return: every call is processed again.
NeverProcessed(schema_id, refs) == FALSE

\* The visited-set test of lines 176-177.
AlreadyProcessed(schema_id, refs) == schema_id \in refs

\* Every entry into _process_type is recorded in st.trace (the identifier,
\* display name and schema it was called with, and how many calls of
\* _process_type are on the stack, this one included), whether or not it
\* returns early.
Enter(schema_name, schema, schema_id, st) ==
    [st EXCEPT !.trace = Append(@, [id |-> schema_id, name |-> schema_name,
                                    schema |-> schema, depth |-> st.depth + 1])]

\* The frame of the call, while the body runs and once it is left.
Descend(st) == [st EXCEPT !.depth = @ + 1]

Leave(depth, st) == [st EXCEPT !.depth = depth]

\* self.processed_refs.add(schema_id)
MarkProcessed(schema_id, st) == [st EXCEPT !.refs = @ \cup {schema_id}]

\* A variant that tests anyOf before $ref.
DispatchAnyOfFirst(schema_name, schema, schema_id, graph, st) ==
    IF InErr(schema) THEN Raise(st, "TypeError")
    ELSE IF In("anyOf", schema)
    THEN ProcessAnyOf(schema_name, schema, schema_id, graph, st)
    ELSE IF In("$ref", schema)
    THEN ProcessReference(schema_name, schema, schema_id, graph, st)
    ELSE IF GetErr(schema) THEN Raise(st, "AttributeError")
    ELSE IF Get(schema, "type", S("object")) = S("object")
    THEN ProcessObject(schema_name, schema, schema_id, graph, st)
    ELSE IF Get(schema, "type", S("object")) = S("array")
    THEN ProcessArray(schema_name, schema, schema_id, graph, st)
    ELSE ProcessSimple(schema_name, schema, Get(schema, "type", S("object")),
                       schema_id, graph, st)

\* Lines 182-300: the dispatch on the shape of the schema.
Dispatch(schema_name, schema, schema_id, graph, st) ==
    IF InErr(schema) THEN Raise(st, "TypeError")
    ELSE IF In("$ref", schema)
    THEN ProcessReference(schema_name, schema, schema_id, graph, st)
    ELSE IF In("anyOf", schema)
    THEN ProcessAnyOf(schema_name, schema, schema_id, graph, st)
    ELSE IF GetErr(schema) THEN Raise(st, "AttributeError")
    ELSE IF Get(schema, "type", S("object")) = S("object")
    THEN ProcessObject(schema_name, schema, schema_id, graph, st)
    ELSE IF Get(schema, "type", S("object")) = S("array")
    THEN ProcessArray(schema_name, schema, schema_id, graph, st)
    ELSE ProcessSimple(schema_name, schema, Get(schema, "type", S("object")),
                       schema_id, graph, st)

_process_type(schema_name, schema, schema_id, graph, st) ==
    IF AlreadyProcessed(schema_id, st.refs)
    THEN Enter(schema_name, schema, schema_id, st)
    ELSE Leave(st.depth,
             Dispatch(schema_name, schema, schema_id, graph,
                 MarkProcessed(schema_id,
                     Descend(Enter(schema_name, schema, schema_id, st)))))

-----------------------------------------------------------------------------
(* _add_schemas and generate_graph *)

\* A variant whose loop tests the visited set itself and calls _process_type
\* only for identifiers not yet in it.
RECURSIVE SchemaLoopUnvisited(_, _, _, _)
SchemaLoopUnvisited(entries, j, schemas_graph, st) ==
    IF st.err # "none" \/ j > Len(entries) THEN st
    ELSE SchemaLoopUnvisited(entries, j + 1, schemas_graph,
             IF "schema_" \o entries[j][1] \in st.refs THEN st
             ELSE _process_type(entries[j][1], entries[j][2],
                                "schema_" \o entries[j][1], schemas_graph, st))

\* The loop of lines 52-56.
RECURSIVE SchemaLoop(_, _, _, _)
SchemaLoop(entries, j, schemas_graph, st) ==
    IF st.err # "none" \/ j > Len(entries) THEN st
    ELSE SchemaLoop(entries, j + 1, schemas_graph,
             _process_type(entries[j][1], entries[j][2],
                           "schema_" \o entries[j][1], schemas_graph, st))

\* with self.graph.subgraph(name='cluster_schemas') as schemas_graph
Subgraph(st, g, name) ==
    [st EXCEPT !.calls = Append(@, [op |-> "subgraph", g |-> g, name |-> name])]

\* A variant that walks the schemas in an order that changes from one
\* generator to the next, as the iteration of a set of names would.
AddSchemasOfHashed(schemas, st) ==
    IF ~Truthy(schemas) THEN st
    ELSE IF GetErr(schemas)
    THEN Raise(Subgraph(st, "API_Graph", "cluster_schemas"), "AttributeError")
    ELSE SchemaLoop(IF runs % 2 = 0 THEN schemas.es
                    ELSE [i \in 1..Len(schemas.es) |->
                             schemas.es[Len(schemas.es) + 1 - i]],
                    1, "cluster_schemas",
                    Subgraph(st, "API_Graph", "cluster_schemas"))

\* Lines 45-56, given components.schemas.
AddSchemasOf(schemas, st) ==
    IF ~Truthy(schemas) THEN st
    ELSE IF GetErr(schemas)
    THEN Raise(Subgraph(st, "API_Graph", "cluster_schemas"), "AttributeError")
    ELSE SchemaLoop(schemas.es, 1, "cluster_schemas",
                    Subgraph(st, "API_Graph", "cluster_schemas"))

_add_schemas(document, st) ==
    IF GetErr(document) THEN Raise(st, "AttributeError")
    ELSE IF GetErr(Get(document, "components", PyDict(<<>>)))
    THEN Raise(st, "AttributeError")
    ELSE AddSchemasOf(Get(Get(document, "components", PyDict(<<>>)), "schemas",
                          PyDict(<<>>)), st)

\* A variant that clears the visited set at the start of every call.
GenerateGraphFresh(document, st) == _add_schemas(document, [st EXCEPT !.refs = {}])

\* _add_info_node, _add_paths and _add_relationships are empty.
generate_graph(document, st) == _add_schemas(document, st)

-----------------------------------------------------------------------------
(* Documents and schema nodes the model draws its inputs from. *)

Ref(name) == PyDict(<< <<"$ref", PyStr(<<"#", "components", "schemas", name>>)>> >>)

Prim(t) == PyDict(<< <<"type", S(t)>> >>)

Obj(props) == PyDict(<< <<"type", S("object")>>, <<"properties", PyDict(props)>> >>)

Arr(items) == PyDict(<< <<"type", S("array")>>, <<"items", items>> >>)

AnyOf(alts) == PyDict(<< <<"anyOf", PyList(alts)>> >>)

EnumValues(n) == PyList([i \in 1..n |-> S("v" \o ToString(i))])

Enum(n) == PyDict(<< <<"type", S("string")>>, <<"enum", EnumValues(n)>> >>)

Inline == Obj(<< <<"c", Prim("integer")>> >>)

\* Schemas as they stand under components.schemas.  The last one is what a
\* YAML document with an empty schema loads as.
TopShapes ==
    << Prim("string"),
       Enum(1),
       Enum(MaxEnum),
       Ref("B"),
       Ref("Missing"),
       AnyOf(<<Inline, Ref("Missing"), PyDict(<<>>)>>),
       PyDict(<<>>),
       Obj(<< <<"b", Obj(<< <<"c", Inline>> >>)>>, <<"c", Ref("A")>> >>),
       Obj(<< <<"b", AnyOf(<<Inline, Ref("B")>>)>> >>),
       Obj(<< <<"b", Arr(Inline)>>, <<"b_items", Inline>> >>),
       Obj(<< <<"b", Arr(AnyOf(<<Ref("Missing"), Inline>>))>>,
              <<"c", Arr(Ref("A_b"))>> >>),
       PyDict(<< <<"type", S("object")>>,
                 <<"additionalProperties",
                   PyDict(<< <<"type", S("object")>>,
                             <<"properties", PyDict(<< <<"b", Ref("A")>> >>)>>,
                             <<"additionalProperties", Ref("Missing")>> >>)>> >>),
       Arr(Inline),
       Arr(AnyOf(<<Inline, Ref("B"), Prim("string")>>)),
       PyNone >>

ShapeSet == {TopShapes[i] : i \in 1..Len(TopShapes)}

Names == {"A", "B", "A_b"}

\* The ordered entries of components.schemas: up to MaxSchemas named schemas,
\* no name twice.
EntrySeqs ==
    UNION {{e \in [1..n -> Names \X ShapeSet] :
               \A i, j \in 1..n : i # j => e[i][1] # e[j][1]} : n \in 0..MaxSchemas}

DocOf(entries) ==
    PyDict(<< <<"openapi", S("3.0.0")>>,
              <<"components", PyDict(<< <<"schemas", PyDict(entries)>> >>)>> >>)

Docs ==
    {DocOf(e) : e \in EntrySeqs}
        \cup {PyDict(<< <<"openapi", S("3.0.0")>> >>),
              PyDict(<< <<"openapi", S("3.0.0")>>, <<"components", PyDict(<<>>)>> >>)}

-----------------------------------------------------------------------------
(* The generator as a state machine: generate_graph on a loaded document. *)

NoCall ==
    [op |-> "none", name |-> "", schema |-> PyNone, id |-> "", graph |-> "",
     pre_refs |-> {}, base |-> 0, tbase |-> 0, err |-> "none", val |-> PyNone,
     prev_err |-> "none", prev_base |-> 0]

\* __init__: the document is loaded, the graph and the visited set are empty.
Construct(document) ==
    /\ spec = document
    /\ processed_refs = {}
    /\ calls = <<>>
    /\ trace = <<>>
    /\ nested_edges = {}
    /\ last = NoCall
    /\ runs = 0
    /\ ncalls = 0

Init == \E document \in Docs : Construct(document)

Current ==
    [refs |-> processed_refs, calls |-> calls, trace |-> trace, err |-> "none",
     depth |-> 0, nested |-> nested_edges]

\* The state an operation leaves behind: the visited set, the log, and the
\* record of the operation with the exception it ended with.
Returns(st, record) ==
    /\ processed_refs' = st.refs
    /\ calls' = st.calls
    /\ trace' = st.trace
    /\ nested_edges' = st.nested
    /\ last' = [record EXCEPT !.err = st.err]

Called(op, name, schema, id, graph) ==
    [NoCall EXCEPT !.op = op, !.name = name, !.schema = schema, !.id = id,
                   !.graph = graph, !.pre_refs = processed_refs,
                   !.base = Len(calls), !.tbase = Len(trace),
                   !.prev_err = last.err, !.prev_base = last.base]

GenerateGraph ==
    /\ runs < MaxRuns
    /\ Returns(generate_graph(spec, Current),
               Called("generate_graph", "", PyNone, "", "API_Graph"))
    /\ runs' = runs + 1
    /\ UNCHANGED <<spec, ncalls>>

Next == GenerateGraph

Spec == Init /\ [][Next]_vars

\* Two generators, one after the other, each built from the same document and
\* each asked for its graph once; the log keeps the calls on both sinks.
GenerateOnFresh ==
    /\ runs < MaxRuns
    /\ Returns(generate_graph(spec, [Current EXCEPT !.refs = {}]),
               [Called("generate_graph", "", PyNone, "", "API_Graph")
                    EXCEPT !.pre_refs = {}])
    /\ runs' = runs + 1
    /\ UNCHANGED <<spec, ncalls>>

NextFresh == GenerateOnFresh

SpecFresh == Init /\ [][NextFresh]_vars

-----------------------------------------------------------------------------
(* Direct calls of _process_type and _get_property_type_label on a         *)
(* generator, as the unit tests make them: the document is the tests'      *)
(* fixture, the graph argument is a mock sink.                             *)

TestSpec ==
    DocOf(<< <<"SimpleType", Prim("string")>>,
             <<"ArrayType", Arr(Prim("string"))>>,
             <<"ObjectType", Obj(<< <<"prop1", Prim("string")>>,
                                    <<"prop2", Prim("integer")>> >>)>>,
             <<"ReferenceType", Ref("SimpleType")>>,
             <<"AnyOfType", AnyOf(<<Prim("string"), Ref("SimpleType")>>)>>,
             <<"ArrayWithAnyOf", Arr(AnyOf(<<Prim("string"), Ref("SimpleType")>>))>>,
             <<"ObjectWithAnyOfProperty",
               Obj(<< <<"anyOfProp",
                        AnyOf(<<Prim("string"), Ref("SimpleType")>>)>> >>)>> >>)

\* Schema nodes whose recognized keys hold values of an unexpected kind.
Malformed ==
    { PyNone, S("oops"), PyInt(3), PyList(<<S("$ref")>>),
      PyDict(<< <<"$ref", PyInt(5)>> >>),
      PyDict(<< <<"type", PyList(<<S("string"), S("null")>>)>> >>),
      Obj(<< <<"b", PyNone>> >>),
      Obj(<< <<"b", S("oops")>> >>),
      PyDict(<< <<"type", S("object")>>, <<"properties", PyList(<<S("b")>>)>> >>),
      Arr(PyNone),
      AnyOf(<<PyNone>>),
      AnyOf(<<PyDict(<< <<"type", PyInt(3)>> >>)>>),
      PyDict(<< <<"anyOf", PyNone>> >>),
      PyDict(<< <<"type", S("string")>>, <<"enum", PyNone>> >>),
      PyDict(<< <<"type", S("object")>>, <<"additionalProperties", PyBool(TRUE)>> >>),
      PyDict(<< <<"type", S("object")>>, <<"properties", PyNone>>,
                <<"additionalProperties", PyNone>> >>) }

\* A $ref next to other keys.
RefPlus ==
    { PyDict(<< <<"anyOf", PyList(<<Ref("B"), Inline>>)>>,
                <<"$ref", PyStr(<<"#", "components", "schemas", "SimpleType">>)>> >>),
      PyDict(<< <<"type", S("array")>>, <<"items", Inline>>,
                <<"$ref", PyStr(<<"Missing">>)>>,
                <<"properties", PyDict(<< <<"b", Inline>> >>)>> >>),
      PyDict(<< <<"$ref", PyStr(<<"#", "x", "">>)>>, <<"type", PyNone>>,
                <<"enum", EnumValues(1)>> >>) }

Untyped == PyDict(<< <<"properties", PyDict(<< <<"c", Prim("integer")>> >>)>> >>)

AnyOfShapes ==
    { AnyOf(<<>>),
      AnyOf(<<Prim("string"), Ref("SimpleType")>>),
      AnyOf(<<Inline, PyDict(<<>>), Untyped, Ref("Missing"), Inline>>),
      AnyOf(<<PyDict(<< <<"type", S("object")>> >>), Arr(Ref("B")),
              AnyOf(<<Ref("B")>>)>>),
      PyDict(<< <<"type", S("array")>>, <<"items", Ref("B")>>,
                <<"anyOf", PyList(<<Obj(<< <<"b", Inline>>, <<"c", Ref("T")>> >>)>>)>> >>) }

ArrayShapes ==
    { PyDict(<< <<"type", S("array")>> >>),
      Arr(Ref("SimpleType")),
      Arr(Prim("string")),
      Arr(Inline),
      Arr(PyDict(<< <<"type", S("object")>> >>)),
      Arr(PyDict(<<>>)),
      Arr(Untyped),
      Arr(Arr(Inline)),
      Arr(AnyOf(<<>>)),
      Arr(AnyOf(<<Prim("string"), Ref("SimpleType")>>)),
      Arr(AnyOf(<<Inline, Untyped, Ref("Missing"), PyDict(<<>>),
                  Obj(<< <<"b", Ref("B")>> >>)>>)),
      PyDict(<< <<"type", S("array")>>,
                <<"items", PyDict(<< <<"anyOf", PyList(<<Ref("B")>>)>>,
                                     <<"$ref", PyStr(<<"#", "C">>)>> >>)>>,
                <<"properties", PyDict(<< <<"b", Inline>> >>)>> >>) }

\* Objects whose properties take every shape the table tells apart.
ObjectShapes ==
    { Obj(<< <<"r", Ref("SimpleType")>>,
             <<"a", AnyOf(<<Prim("string"), Ref("B"), Inline, Untyped>>)>>,
             <<"p", Prim("string")>> >>),
      Obj(<< <<"x", Arr(Ref("B"))>>, <<"y", Arr(Inline)>>,
             <<"z", Arr(AnyOf(<<Ref("B"), Inline, Prim("integer")>>))>> >>),
      Obj(<< <<"x", Arr(Prim("string"))>>, <<"y", Prim("array")>>,
             <<"z", Inline>>, <<"q", Arr(Untyped)>> >>),
      Obj(<< <<"u", Untyped>>, <<"e", PyDict(<<>>)>>, <<"o", Prim("object")>> >>),
      Obj(<<>>),
      Prim("object") }

\* d objects, each the one property of the one around it.
RECURSIVE Nested(_)
Nested(d) == IF d = 0 THEN Prim("string") ELSE Obj(<< <<"n", Nested(d - 1)>> >>)

EnumShapes ==
    {Enum(n) : n \in 0..MaxEnum}
        \cup { PyDict(<< <<"type", S("integer")>>,
                         <<"enum", PyList(<<PyInt(1), PyInt(2), PyNone>>)>> >>) }

CallShapes == ShapeSet \cup Malformed \cup RefPlus \cup AnyOfShapes \cup ArrayShapes
                  \cup ObjectShapes \cup EnumShapes \cup {Nested(MaxDepth)}

\* The display name and the identifier of a direct call.
CallTargets ==
    { <<"T", "schema_T">>, <<"SimpleType", "schema_SimpleType">>,
      <<"Other", "schema_SimpleType">> }

InitCall == Construct(TestSpec)

ProcessTypeCall ==
    /\ ncalls < MaxCalls
    /\ \E target \in CallTargets, schema \in CallShapes :
         Returns(_process_type(target[1], schema, target[2], "mock", Current),
                 Called("_process_type", target[1], schema, target[2], "mock"))
    /\ ncalls' = ncalls + 1
    /\ UNCHANGED <<spec, runs>>

\* What _get_property_type_label returned or raised.
Labelled(r, record) == last' = [record EXCEPT !.err = r.err, !.val = r.val]

LabelCall ==
    /\ ncalls < MaxCalls
    /\ \E prop_details \in CallShapes :
         Labelled(_get_property_type_label(prop_details),
                  Called("_get_property_type_label", "", prop_details, "", ""))
    /\ ncalls' = ncalls + 1
    /\ UNCHANGED <<spec, processed_refs, calls, trace, nested_edges, runs>>

\* The tests call generate_graph, if at all, before their direct calls.
GenerateFirst == ncalls = 0 /\ GenerateGraph

NextCall == GenerateFirst \/ ProcessTypeCall \/ LabelCall

SpecCall == InitCall /\ [][NextCall]_vars

\* The calls the last operation made on the sink, and its entries into
\* _process_type.
Emitted == SubSeq(calls, last.base + 1, Len(calls))

Entered == SubSeq(trace, last.tbase + 1, Len(trace))

-----------------------------------------------------------------------------
(* Vocabulary of the properties. *)

NodesOf(cs, id) == SelectSeq(cs, LAMBDA c : c.op = "node" /\ c.id = id)

EdgesFrom(cs, id) == SelectSeq(cs, LAMBDA c : c.op = "edge" /\ c.tail = id)

NodeIds(cs) == {cs[i].id : i \in {j \in 1..Len(cs) : cs[j].op = "node"}}

\* A schema node whose recognized keys hold values of the expected kinds, at
\* every depth.
RECURSIVE WellFormed(_)
WellFormed(v) ==
    /\ v.k = "dict"
    /\ HasKey(v, "$ref") => Lookup(v, "$ref").k = "str"
    /\ HasKey(v, "type") => Lookup(v, "type").k = "str"
    /\ HasKey(v, "enum") => Lookup(v, "enum").k = "list"
    /\ HasKey(v, "anyOf") =>
           /\ Lookup(v, "anyOf").k = "list"
           /\ \A i \in 1..Len(Lookup(v, "anyOf").xs) :
                  WellFormed(Lookup(v, "anyOf").xs[i])
    /\ HasKey(v, "items") => WellFormed(Lookup(v, "items"))
    /\ HasKey(v, "properties") =>
           /\ Lookup(v, "properties").k = "dict"
           /\ \A i \in 1..Len(Lookup(v, "properties").es) :
                  WellFormed(Lookup(v, "properties").es[i][2])
    /\ HasKey(v, "additionalProperties") =>
           \/ Lookup(v, "additionalProperties").k = "bool"
           \/ WellFormed(Lookup(v, "additionalProperties"))

\* The last operation was _process_type on an identifier not yet visited.
FreshCall == last.op = "_process_type" /\ last.id \notin last.pre_refs

\* The name a $ref string resolves to: its last '/'-segment.
Target(node) == "schema_" \o Lookup(node, "$ref").segs[Len(Lookup(node, "$ref").segs)]

-----------------------------------------------------------------------------
(* C1 *)

\* C1: once an identifier is in processed_refs, a call of _process_type with
\* it, whatever the display name and the schema node, emits no node and no
\* edge, raises nothing and leaves processed_refs unchanged.
C1_VisitedIsNoOp ==
    (last.op = "_process_type" /\ last.id \in last.pre_refs)
        => /\ Emitted = <<>>
           /\ processed_refs = last.pre_refs
           /\ last.err = "none"

\* A call on a visited identifier, under another display name and with a
\* schema that would otherwise emit a node and an edge.
C1_Witness ==
    /\ last.op = "_process_type"
    /\ last.id \in last.pre_refs
    /\ last.name = "Other"
    /\ last.schema.k = "dict"
    /\ HasKey(last.schema, "$ref")

-----------------------------------------------------------------------------
(* C8 *)

\* C8: for a schema node that holds a $ref string, whatever its other keys,
\* _process_type on an unvisited identifier emits exactly one node for the
\* identifier, then exactly one edge from it to schema_<last segment of the
\* $ref> labelled 'references', and makes no recursive call: processed_refs
\* gains the identifier alone.
C8_ReferenceTerminates ==
    (FreshCall /\ last.schema.k = "dict" /\ HasKey(last.schema, "$ref")
        /\ Lookup(last.schema, "$ref").k = "str")
        => /\ last.err = "none"
           /\ Emitted = << NodeCall(last.graph, last.id,
                                    TypeLabel(last.name, "reference"), ""),
                           EdgeCall(last.graph, last.id, "", Target(last.schema),
                                    "references") >>
           /\ Len(Entered) = 1
           /\ processed_refs = last.pre_refs \cup {last.id}

\* A $ref next to an anyOf, a type, properties and items.
C8_Witness ==
    /\ FreshCall
    /\ last.schema.k = "dict"
    /\ HasKey(last.schema, "$ref")
    /\ HasKey(last.schema, "anyOf") \/ HasKey(last.schema, "items")
    /\ Len(Emitted) = 2

-----------------------------------------------------------------------------
(* C2 *)

\* components.schemas of a document, and the names it holds.
SchemasOf(document) ==
    Get(Get(document, "components", PyDict(<<>>)), "schemas", PyDict(<<>>))

SchemaNames(document) ==
    {SchemasOf(document).es[i][1] : i \in 1..Len(SchemasOf(document).es)}

\* C2: after generate_graph on a fresh generator has returned, every name T
\* of components.schemas has exactly one add-node call with identifier
\* schema_T, whatever the shape of T.
C2_OneNodePerSchema ==
    (last.op = "generate_graph" /\ runs = 1 /\ last.err = "none")
        => \A T \in SchemaNames(spec) : Len(NodesOf(calls, "schema_" \o T)) = 1

-----------------------------------------------------------------------------
(* C3 *)

\* A primitive schema with an enum list.
EnumPrimitive(v) ==
    /\ WellFormed(v)
    /\ ~HasKey(v, "$ref") /\ ~HasKey(v, "anyOf")
    /\ HasKey(v, "type") /\ HasKey(v, "enum")
    /\ Lookup(v, "type") \notin {S("object"), S("array")}

\* The first min(n, 5) values, then the ellipsis when n > 5.
EnumText(values) ==
    JoinStrings([i \in 1..Len(Slice(values, EnumLimit)) |-> Fmt(values[i])], ", ")
        \o (IF Len(values) > EnumLimit THEN "..." ELSE "")

\* C3: for a primitive schema with an enum of n values, the node _process_type
\* leaves for the identifier has a label that lists the first min(n, 5) values,
\* followed by an ellipsis exactly when n > 5, and carries the full list as
\* its tooltip.
C3_EnumLabel ==
    (FreshCall /\ EnumPrimitive(last.schema))
        => /\ NodesOf(Emitted, last.id) # <<>>
           /\ LET nodes == NodesOf(Emitted, last.id)
                  values == Lookup(last.schema, "enum")
              IN /\ nodes[Len(nodes)].label =
                        TypeLabel(last.name,
                            Text(Lookup(last.schema, "type")) \o "<BR/>enum: "
                                \o EnumText(values.xs))
                 /\ nodes[Len(nodes)].tooltip = Fmt(values)

-----------------------------------------------------------------------------
(* C4 *)

NodesAndEdges(cs) == SelectSeq(cs, LAMBDA c : c.op \in {"node", "edge"})

\* The calls the operation before the last one made on the sink.
EmittedBefore == SubSeq(calls, last.prev_base + 1, last.base)

-----------------------------------------------------------------------------
(* C5 *)

\* C5: within one traversal no two entries into _process_type, each made for
\* its own schema position, carry the same identifier.
C5_UniqueIdentifiers ==
    (last.op = "generate_graph" /\ runs = 1)
        => \A i, j \in 1..Len(trace) : i # j => trace[i].id # trace[j].id

-----------------------------------------------------------------------------
(* C6 *)

\* The names the $ref strings of a document resolve to.
RECURSIVE RefNames(_)
RefNames(v) ==
    CASE v.k = "dict" ->
           (IF HasKey(v, "$ref") /\ Lookup(v, "$ref").k = "str"
            THEN {Lookup(v, "$ref").segs[Len(Lookup(v, "$ref").segs)]} ELSE {})
               \cup UNION {RefNames(v.es[i][2]) : i \in 1..Len(v.es)}
      [] v.k = "list" -> UNION {RefNames(v.xs[i]) : i \in 1..Len(v.xs)}
      [] OTHER -> {}

\* The targets of $ref strings that name no schema of the document.
Dangling(document) ==
    {"schema_" \o x : x \in RefNames(document) \ SchemaNames(document)}

WellFormedDoc(document) ==
    \A i \in 1..Len(SchemasOf(document).es) :
        WellFormed(SchemasOf(document).es[i][2])

\* C6: when generate_graph on a fresh generator has returned, the tail of
\* every edge has a node, and so has its head unless the head is the target
\* of a $ref that names no schema of the document; and on a document of
\* well-formed schemas, with or without such references, generate_graph
\* raises nothing and gives every schema of components.schemas its node.
C6_EdgeEndpointsHaveNodes ==
    (last.op = "generate_graph" /\ runs = 1)
        => /\ last.err = "none" =>
                 \A i \in 1..Len(calls) :
                     calls[i].op = "edge" =>
                         /\ calls[i].tail \in NodeIds(calls)
                         /\ \/ calls[i].head \in NodeIds(calls)
                            \/ calls[i].head \in Dangling(spec)
           /\ WellFormedDoc(spec) =>
                 /\ last.err = "none"
                 /\ \A T \in SchemaNames(spec) : "schema_" \o T \in NodeIds(calls)

\* A dangling edge, with a schema processed after it.
C6_Witness ==
    /\ last.op = "generate_graph" /\ runs = 1 /\ last.err = "none"
    /\ \E i, j \in 1..Len(calls) :
           /\ i < j
           /\ calls[i].op = "edge"
           /\ calls[i].head \in Dangling(spec) \ NodeIds(calls)
           /\ calls[j].op = "node"
           /\ calls[j].id \in {"schema_" \o T : T \in SchemaNames(spec)}
           /\ calls[j].id # calls[i].tail

-----------------------------------------------------------------------------
(* C7 *)

\* C7: _process_type and _get_property_type_label raise on no schema node,
\* and _process_type emits a node for an identifier it had not visited.
C7_Total ==
    (last.op \in {"_process_type", "_get_property_type_label"})
        => /\ last.err = "none"
           /\ FreshCall => NodesOf(Emitted, last.id) # <<>>

-----------------------------------------------------------------------------
(* C9 *)

\* The summary of one alternative: referenced name, declared type, 'unknown'.
Summary(alt) ==
    IF HasKey(alt, "$ref") THEN Lookup(alt, "$ref").segs[Len(Lookup(alt, "$ref").segs)]
    ELSE IF HasKey(alt, "type") THEN Text(Lookup(alt, "type"))
    ELSE "unknown"

SummaryList(alts) == JoinStrings([i \in 1..Len(alts) |-> Summary(alts[i])], ", ")

\* An inline object with properties.
InlineWithProperties(alt) ==
    /\ ~HasKey(alt, "$ref")
    /\ HasKey(alt, "type") /\ Lookup(alt, "type") = S("object")
    /\ HasKey(alt, "properties")

\* The edges the alternatives from position i on are to give, in order.
RECURSIVE AltEdges(_, _, _, _, _, _)
AltEdges(alts, i, g, id, word, idword) ==
    IF i >= Len(alts) THEN <<>>
    ELSE (IF HasKey(alts[i + 1], "$ref")
          THEN <<EdgeCall(g, id, "", Target(alts[i + 1]),
                          word \o "[" \o ToString(i) \o "]")>>
          ELSE IF InlineWithProperties(alts[i + 1])
          THEN <<EdgeCall(g, id, "", id \o "_" \o idword \o "_" \o ToString(i),
                          word \o "[" \o ToString(i) \o "]")>>
          ELSE <<>>)
             \o AltEdges(alts, i + 1, g, id, word, idword)

AnyOfSchema(v) == WellFormed(v) /\ ~HasKey(v, "$ref") /\ HasKey(v, "anyOf")

\* C9: for a schema node with anyOf and no $ref, _process_type emits exactly
\* one node for the identifier, labelled 'anyOf: ' and the comma-joined
\* summaries in the original order, and from the identifier exactly one edge
\* anyOf[i] per alternative i that is a reference (to schema_<name>) or an
\* inline object with properties (to <id>_anyOf_<i>), i counted from zero,
\* and no other edge.
C9_AnyOf ==
    (FreshCall /\ AnyOfSchema(last.schema))
        => /\ last.err = "none"
           /\ NodesOf(Emitted, last.id)
                  = << NodeCall(last.graph, last.id,
                           TypeLabel(last.name,
                               "anyOf: " \o SummaryList(Lookup(last.schema, "anyOf").xs)),
                           "") >>
           /\ EdgesFrom(Emitted, last.id)
                  = AltEdges(Lookup(last.schema, "anyOf").xs, 0, last.graph,
                             last.id, "anyOf", "anyOf")

\* An anyOf with two inline objects, a reference and alternatives without
\* an edge.
C9_Witness ==
    /\ FreshCall
    /\ AnyOfSchema(last.schema)
    /\ Len(Lookup(last.schema, "anyOf").xs) = 5
    /\ Len(EdgesFrom(Emitted, last.id)) = 3

-----------------------------------------------------------------------------
(* C10 *)

ArraySchema(v) ==
    /\ WellFormed(v)
    /\ ~HasKey(v, "$ref") /\ ~HasKey(v, "anyOf")
    /\ HasKey(v, "type") /\ Lookup(v, "type") = S("array")

\* The label and the edges an array schema is to give, by the shape of its
\* items; an items node of no listed shape is left open.
ArrayAsClaimed(v, name, g, id, label, edges) ==
    IF ~HasKey(v, "items")
    THEN label = TypeLabel(name, "array") /\ edges = <<>>
    ELSE LET items == Lookup(v, "items") IN
         IF HasKey(items, "$ref")
         THEN /\ label = TypeLabel(name, "array of " \o Summary(items))
              /\ edges = <<EdgeCall(g, id, "", Target(items), "items")>>
         ELSE IF HasKey(items, "anyOf")
         THEN /\ label = TypeLabel(name, "array of anyOf: "
                                      \o SummaryList(Lookup(items, "anyOf").xs))
              /\ edges = AltEdges(Lookup(items, "anyOf").xs, 0, g, id,
                                  "items anyOf", "items_anyOf")
         ELSE IF HasKey(items, "type")
         THEN /\ label = TypeLabel(name, "array of " \o Text(Lookup(items, "type")))
              /\ edges = IF InlineWithProperties(items)
                         THEN <<EdgeCall(g, id, "", id \o "_items", "items")>>
                         ELSE <<>>
         ELSE TRUE

\* C10: for a schema node of type array, _process_type emits exactly one node
\* for the identifier; its label and the edges from the identifier follow the
\* shape of items: a reference, an anyOf, a declared type (with one edge
\* 'items' to <id>_items for an object with properties), or no items at all.
C10_Array ==
    (FreshCall /\ ArraySchema(last.schema))
        => /\ last.err = "none"
           /\ Len(NodesOf(Emitted, last.id)) = 1
           /\ ArrayAsClaimed(last.schema, last.name, last.graph, last.id,
                             NodesOf(Emitted, last.id)[1].label,
                             EdgesFrom(Emitted, last.id))

\* An array whose items are an anyOf of five alternatives, three with an edge.
C10_Witness ==
    /\ FreshCall
    /\ ArraySchema(last.schema)
    /\ HasKey(last.schema, "items")
    /\ HasKey(Lookup(last.schema, "items"), "anyOf")
    /\ Len(EdgesFrom(Emitted, last.id)) = 3

-----------------------------------------------------------------------------
(* C12 *)

\* The label of an items node, as C12 words it.
ItemsLabelAsClaimed(items) ==
    IF HasKey(items, "$ref") THEN "array of " \o Summary(items)
    ELSE IF HasKey(items, "anyOf")
    THEN "array of anyOf: " \o SummaryList(Lookup(items, "anyOf").xs)
    ELSE IF HasKey(items, "type") THEN "array of " \o Text(Lookup(items, "type"))
    ELSE "array"

\* The label of a schema node, as C12 words it.
LabelAsClaimed(v) ==
    IF HasKey(v, "$ref") THEN "reference to " \o Summary(v)
    ELSE IF HasKey(v, "anyOf") THEN "anyOf: " \o SummaryList(Lookup(v, "anyOf").xs)
    ELSE IF HasKey(v, "type") THEN
         IF Lookup(v, "type") = S("array")
         THEN IF HasKey(v, "items") THEN ItemsLabelAsClaimed(Lookup(v, "items"))
              ELSE "array"
         ELSE Text(Lookup(v, "type"))
    ELSE "unknown"

\* C12: for every well-formed schema node _get_property_type_label returns
\* 'reference to <name>' for a $ref; else 'anyOf: <summaries>' for an anyOf;
\* else for type array the label of its items ('array of <name>', 'array of
\* anyOf: <summaries>', 'array of <type>', bare 'array'); else the declared
\* type; else 'unknown'.  $ref wins over anyOf, which wins over type.
C12_PropertyTypeLabel ==
    (last.op = "_get_property_type_label" /\ WellFormed(last.schema))
        => /\ last.err = "none"
           /\ last.val.k = "str"
           /\ Text(last.val) = LabelAsClaimed(last.schema)

\* A node that holds $ref, type, items and properties at once.
C12_Witness ==
    /\ last.op = "_get_property_type_label"
    /\ WellFormed(last.schema)
    /\ HasKey(last.schema, "$ref") /\ HasKey(last.schema, "items")
    /\ last.err = "none"
    /\ last.val = S("reference to Missing")

-----------------------------------------------------------------------------
(* C11 *)

ObjectSchema(v) ==
    /\ WellFormed(v)
    /\ ~HasKey(v, "$ref") /\ ~HasKey(v, "anyOf")
    /\ HasKey(v, "type") => Lookup(v, "type") = S("object")

\* The properties of an object schema; none when the key is absent.
PropertiesOf(v) == IF HasKey(v, "properties") THEN Lookup(v, "properties").es ELSE <<>>

\* The edges the alternatives of an anyOf property, from position i on, are
\* to give: one per reference and one per inline object with properties.
RECURSIVE PropAltEdges(_, _, _, _, _, _, _)
PropAltEdges(alts, i, g, id, prop, word, idword) ==
    IF i >= Len(alts) THEN <<>>
    ELSE (IF HasKey(alts[i + 1], "$ref")
          THEN <<EdgeCall(g, id, "port_" \o prop, Target(alts[i + 1]),
                          prop \o " (" \o word \o "[" \o ToString(i) \o "])")>>
          ELSE IF InlineWithProperties(alts[i + 1])
          THEN <<EdgeCall(g, id, "port_" \o prop,
                          id \o "_" \o prop \o "_" \o idword \o "_" \o ToString(i),
                          prop \o " (" \o word \o "[" \o ToString(i) \o "])")>>
          ELSE <<>>)
             \o PropAltEdges(alts, i + 1, g, id, prop, word, idword)

\* The edges an array property with items is to give.
ArrayPropEdgesAsClaimed(prop, items, g, id) ==
    IF HasKey(items, "$ref")
    THEN <<EdgeCall(g, id, "port_" \o prop, Target(items), prop \o " (array)")>>
    ELSE IF HasKey(items, "anyOf")
    THEN PropAltEdges(Lookup(items, "anyOf").xs, 0, g, id, prop,
                      "array anyOf", "array_anyOf")
    ELSE IF InlineWithProperties(items)
    THEN <<EdgeCall(g, id, "port_" \o prop, id \o "_" \o prop \o "_items",
                    prop \o " (array)")>>
    ELSE <<>>

\* The edges one property is to give.
PropEdgesAsClaimed(prop, v, g, id) ==
    IF HasKey(v, "$ref")
    THEN <<EdgeCall(g, id, "port_" \o prop, Target(v), prop)>>
    ELSE IF HasKey(v, "anyOf")
    THEN PropAltEdges(Lookup(v, "anyOf").xs, 0, g, id, prop, "anyOf", "anyOf")
    ELSE IF HasKey(v, "type") /\ Lookup(v, "type") = S("array") /\ HasKey(v, "items")
    THEN ArrayPropEdgesAsClaimed(prop, Lookup(v, "items"), g, id)
    ELSE IF InlineWithProperties(v)
    THEN <<EdgeCall(g, id, "port_" \o prop, id \o "_" \o prop, prop)>>
    ELSE <<>>

RECURSIVE TableEdgesAsClaimed(_, _, _, _)
TableEdgesAsClaimed(entries, j, g, id) ==
    IF j > Len(entries) THEN <<>>
    ELSE PropEdgesAsClaimed(entries[j][1], entries[j][2], g, id)
             \o TableEdgesAsClaimed(entries, j + 1, g, id)

\* The texts of one row per property, in property order; the type cell of a
\* row may carry a PORT attribute.
RECURSIVE RowsAsClaimed(_, _)
RowsAsClaimed(entries, j) ==
    IF j > Len(entries) THEN {""}
    ELSE { "<TR><TD>" \o entries[j][1] \o "</TD><TD" \o port \o ">"
               \o LabelAsClaimed(entries[j][2]) \o "</TD></TR>" \o rest :
           port \in {"", " PORT=\"port_" \o entries[j][1] \o "\""},
           rest \in RowsAsClaimed(entries, j + 1) }

\* The tables an object of the given name and properties may give.
TablesAsClaimed(name, entries) ==
    IF entries = <<>> THEN {"<TABLE><TR><TD>No properties</TD></TR></TABLE>"}
    ELSE { "<TABLE BORDER='0' CELLBORDER='1' CELLSPACING='0'>"
               \o "<TR><TD COLSPAN='2'><B>" \o name \o "</B></TD></TR>"
               \o "<TR><TD><B>Property</B></TD><TD><B>Type</B></TD></TR>"
               \o rows \o "</TABLE>" : rows \in RowsAsClaimed(entries, 1) }

\* The edges of a log that start at a port of the node id.
PortEdgesFrom(cs, id) ==
    SelectSeq(cs, LAMBDA c : c.op = "edge" /\ c.tail = id /\ c.port # "")

\* C11: the table of an object has exactly one row per property, in property
\* order, and the edges from the ports of the object are exactly those of
\* its properties, in order: one for a reference property, one per reference
\* or inline-object alternative of an anyOf property, one for array items
\* that are a reference or an inline object, one per such alternative of
\* anyOf items, one for an inline object property; none for the other
\* shapes.  An object without properties gives the 'No properties'
\* placeholder and no such edge.
C11_PropertyTable ==
    (FreshCall /\ ObjectSchema(last.schema))
        => /\ last.err = "none"
           /\ Len(NodesOf(Emitted, last.id)) = 1
           /\ NodesOf(Emitted, last.id)[1].label
                  \in { "<" \o t \o ">" :
                          t \in TablesAsClaimed(last.name, PropertiesOf(last.schema)) }
           /\ PortEdgesFrom(Emitted, last.id)
                  = TableEdgesAsClaimed(PropertiesOf(last.schema), 1, last.graph,
                                        last.id)

\* An object of three properties: array of a reference, array of an inline
\* object, array of an anyOf with two alternatives that give an edge.
C11_Witness ==
    /\ FreshCall
    /\ ObjectSchema(last.schema)
    /\ Len(PropertiesOf(last.schema)) = 3
    /\ Len(PortEdgesFrom(Emitted, last.id)) = 4

-----------------------------------------------------------------------------
(* C13 *)

EdgesOf(cs) == SelectSeq(cs, LAMBDA c : c.op = "edge")

-----------------------------------------------------------------------------
(* C14 *)

\* A schema node that holds properties and none of $ref, anyOf, type.
UntypedWithProperties(v) ==
    /\ v.k = "dict"
    /\ ~HasKey(v, "$ref") /\ ~HasKey(v, "anyOf") /\ ~HasKey(v, "type")
    /\ HasKey(v, "properties")

\* C14: a property that has inline properties and no explicit type is an
\* object as a top-level schema of that shape is: it is processed into the
\* nested identifier <object_id>_<property>, which gets a node, and the
\* object gets an edge to it labelled with the property name.
C14_DefaultedObjectProperty ==
    (FreshCall /\ ObjectSchema(last.schema))
        => \A j \in 1..Len(PropertiesOf(last.schema)) :
               UntypedWithProperties(PropertiesOf(last.schema)[j][2])
                   => /\ last.id \o "_" \o PropertiesOf(last.schema)[j][1]
                             \in NodeIds(Emitted)
                      /\ \E i \in 1..Len(Emitted) :
                             /\ Emitted[i].op = "edge"
                             /\ Emitted[i].tail = last.id
                             /\ Emitted[i].head
                                    = last.id \o "_" \o PropertiesOf(last.schema)[j][1]
                             /\ Emitted[i].label = PropertiesOf(last.schema)[j][1]

-----------------------------------------------------------------------------
(* C15 *)

\* The deepest stack of _process_type calls the last operation reached.
DepthReached ==
    IF Entered = <<>> THEN 0
    ELSE CHOOSE d \in {Entered[i].depth : i \in 1..Len(Entered)} :
             \A i \in 1..Len(Entered) : Entered[i].depth <= d

\* C15: the recursion of _process_type through inline nested objects stops
\* at a fixed ceiling: on a schema that nests MaxDepth objects, the deepest
\* the model holds, the recursion stays above the innermost object or the
\* call reports that the structure is too deep.
C15_DepthGuarded ==
    (FreshCall /\ last.schema = Nested(MaxDepth))
        => \/ DepthReached < MaxDepth
           \/ last.err = "structure too deep"

-----------------------------------------------------------------------------
(* C16 *)

\* The values held inside a value, at any depth.
RECURSIVE Parts(_)
Parts(v) ==
    CASE v.k = "dict" ->
           {v.es[i][2] : i \in 1..Len(v.es)}
               \cup UNION {Parts(v.es[i][2]) : i \in 1..Len(v.es)}
      [] v.k = "list" ->
           {v.xs[i] : i \in 1..Len(v.xs)}
               \cup UNION {Parts(v.xs[i]) : i \in 1..Len(v.xs)}
      [] OTHER -> {}

\* The schema of a nested call is taken from inside the schema of the call
\* that made it: it is an object node held there, without $ref, or that
\* node's type and properties alone.
TakenFrom(child, parent) ==
    \E n \in Parts(parent) :
        /\ n.k = "dict"
        /\ ~HasKey(n, "$ref")
        /\ HasKey(n, "properties")
        /\ child \in {n, InlineObject(Lookup(n, "properties"))}

\* The entry of the call that made the nested call of entry i.
Caller(es, i) ==
    CHOOSE k \in 0..(i - 1) :
        /\ k > 0 => es[k].depth = es[i].depth - 1
        /\ \A m \in (k + 1)..(i - 1) : es[m].depth >= es[i].depth

\* C16: in a call of generate_graph, cyclic $ref relations included, every
\* nested call of _process_type is made on a strict sub-structure of the
\* schema of the call that makes it, never on a schema reached through a
\* $ref; so the nesting of the calls is bounded by the nesting of the
\* document and the call returns.
C16_RecursionOnSubStructure ==
    (last.op = "generate_graph")
        => \A i \in 1..Len(Entered) :
               IF Entered[i].depth = 1
               THEN Entered[i].id \in {"schema_" \o T : T \in SchemaNames(spec)}
               ELSE /\ Caller(Entered, i) > 0
                    /\ TakenFrom(Entered[i].schema,
                                 Entered[Caller(Entered, i)].schema)

\* A schema that refers to itself, with calls nested three deep.
C16_Witness ==
    /\ last.op = "generate_graph"
    /\ runs = 1
    /\ last.err = "none"
    /\ \E i \in 1..Len(Entered) : Entered[i].depth = 3
    /\ \E i \in 1..Len(SchemasOf(spec).es) :
           SchemasOf(spec).es[i][1] \in RefNames(SchemasOf(spec).es[i][2])

-----------------------------------------------------------------------------
(* C17 *)

\* The entries into _process_type the driver itself made.
DriverEntries(es) == SelectSeq(es, LAMBDA e : e.depth = 1)

\* One entry per schema of components.schemas, in document order.
EntriesAsClaimed(document) ==
    [j \in 1..Len(SchemasOf(document).es) |->
        [id |-> "schema_" \o SchemasOf(document).es[j][1],
         name |-> SchemasOf(document).es[j][1],
         schema |-> SchemasOf(document).es[j][2],
         depth |-> 1]]

SubgraphsOf(cs) == SelectSeq(cs, LAMBDA c : c.op = "subgraph")

\* C17: a call of generate_graph that returns has called _process_type
\* exactly once per entry of components.schemas, in document order, with
\* identifier schema_<name> (and up to the entry that raised, when it
\* raises); it has created one cluster, before anything else, and every node
\* and edge, those of nested inline schemas too, went to that cluster; with
\* components or components.schemas absent or empty it made no call on the
\* sink at all.
C17_DriverOncePerSchema ==
    (last.op = "generate_graph")
        => /\ Len(DriverEntries(Entered)) <= Len(EntriesAsClaimed(spec))
           /\ DriverEntries(Entered)
                  = SubSeq(EntriesAsClaimed(spec), 1, Len(DriverEntries(Entered)))
           /\ last.err = "none" => DriverEntries(Entered) = EntriesAsClaimed(spec)
           /\ IF SchemasOf(spec).es = <<>> THEN Emitted = <<>>
              ELSE /\ Emitted # <<>>
                   /\ Emitted[1] = [op |-> "subgraph", g |-> "API_Graph",
                                    name |-> "cluster_schemas"]
                   /\ Len(SubgraphsOf(Emitted)) = 1
                   /\ \A i \in 2..Len(Emitted) : Emitted[i].g = "cluster_schemas"

\* Two schemas, the calls for both made, with a nested inline schema whose
\* node went to the cluster.
C17_Witness ==
    /\ last.op = "generate_graph"
    /\ runs = 1
    /\ last.err = "none"
    /\ Len(DriverEntries(Entered)) = 2
    /\ \E i \in 1..Len(Entered) : 
           /\ Entered[i].depth = 2
           /\ \E k \in 1..Len(Emitted) :
                  /\ Emitted[k].op = "node"
                  /\ Emitted[k].id = Entered[i].id
                  /\ Emitted[k].g = "cluster_schemas"

\* A document without components.schemas, or with none in it: no cluster.
C17_WitnessEmpty ==
    /\ last.op = "generate_graph"
    /\ SchemasOf(spec).es = <<>>
    /\ HasKey(spec, "components")

-----------------------------------------------------------------------------
(* C18 *)

\* C18: in the sink calls of a traversal, every edge drawn to the identifier
\* of a nested call (<parent>_<property>, <parent>_<property>_items,
\* <parent>_..._anyOf_<i>, <parent>_items, <parent>_additionalProps) comes
\* after an add-node call for that identifier, also when the identifier was
\* already visited when the nested call was made.
C18_NodeBeforeNestedEdge ==
    (last.op = "generate_graph")
        => \A i \in nested_edges :
               /\ calls[i].op = "edge"
               /\ \E k \in 1..(i - 1) :
                      calls[k].op = "node" /\ calls[k].id = calls[i].head

\* The same, for the first traversal of a generator only: there an
\* identifier is visited without a node only while its call is on the stack.
FirstTraversalNodeBeforeNestedEdge ==
    (last.op = "generate_graph" /\ runs = 1)
        => \A i \in nested_edges :
               \E k \in 1..(i - 1) :
                   calls[k].op = "node" /\ calls[k].id = calls[i].head

\* Two nested calls in one traversal were made with the same identifier, the
\* second one finding it visited, and each was followed by its edge.
FirstTraversalRevisits ==
    /\ last.op = "generate_graph"
    /\ runs = 1
    /\ \E j, k \in 1..Len(trace) :
           /\ j < k
           /\ trace[k].depth >= 2
           /\ trace[j].id = trace[k].id
           /\ Cardinality({i \in nested_edges : calls[i].head = trace[k].id}) = 2

====
